---- MODULE Spec2Model ----
(***************************************************************************)
(* The Books RAG question-answering service (src/api.py): the LangGraph    *)
(* control graph built by build_graph, the retrieve_from_books tool with   *)
(* its module-global retrieved_sources list, and the ask_question handler. *)
(*                                                                         *)
(* Model calls (router, grader, rewriter, generator) and the vector index  *)
(* are external: their outputs are drawn from small sets, and each call    *)
(* may raise.                                                              *)
(***************************************************************************)
EXTENDS Integers, Sequences, FiniteSets, TLC

\* ------------------------------------------------------------------ bounds
\* Super-step budget of one graph run.  graph.invoke is called without a
\* config (api.py:329), so the run is bounded only by the graph library's
\* recursion limit; the model runs the graph under a smaller budget.
MaxSteps == 11
\* The budget used when two handler executions overlap (SpecConc).
ConcSteps == 3
\* The rewrite cap the specification asks for (section 4.1 recommends 2-3).
\* The source has no such constant.
RewriteCap == 2
\* The longest page_content the content_preview expression is applied to.
MaxTextLen == 205
\* The largest magnitude of a stored page number the page expression is
\* applied to.
MaxPage == 30
\* The largest point count the collection lookup reports.
MaxPoints == 3
\* The largest number of chunks given to the ingestion's batch loop.
MaxChunks == 250
\* The largest number of documents an ingestion run loads.
MaxDocs == 3
\* The largest number of PDF files in the books directory.
MaxFiles == 3
\* The largest number of pages of one PDF file.
MaxPages == 3

\* ------------------------------------------------------- program constants
\* search_kwargs={"k": 5}
K == 5
\* doc.page_content[:200]
PREVIEW_LEN == 200
\* len("...")
ELLIPSIS_LEN == 3
\* batch_size = 100 (generate_embeddings.py)
BATCH_SIZE == 100

\* ------------------------------------------------------------- value sets
\* Two clients; each sends its own question, any number of times.
Reqs == {"A", "B"}
QuestionOf(r) == IF r = "A" THEN "q1" ELSE "q2"

\* A message content: LLM text, or the text a tool call returns (the joined
\* "[Source: s, Page: p]\ncontent" blocks, kept as the sequence of blocks).
Text(s) == [text |-> s, parts |-> <<>>]
Passages(ps) == [text |-> "", parts |-> ps]
EmptyContent == Text("")
NO_INFO == Text("No relevant information found in the books.")
\* Python truthiness of a str
Truthy(c) == c # EmptyContent

\* ---------------------------------------------------------------- corpus
\* Stored page metadata: an int, a float (num counts halves), a str, or absent.
PgInt(n) == [kind |-> "int", num |-> n]
PgFloat(h) == [kind |-> "float", num |-> h]
PgStr == [kind |-> "str", num |-> 0]
PgMissing == [kind |-> "missing", num |-> 0]
\* page_content is kept as the identity of the text and its length.
Body(id, n) == [id |-> id, len |-> n]
Doc(src, pg, body) == [source_file |-> src, page |-> pg, page_content |-> body]
MISSING == "<absent>"
d1 == Doc("math.pdf", PgInt(3), Body("t1", 150))
d2 == Doc(MISSING, PgMissing, Body("t2", 250))
d3 == Doc("science.pdf", PgFloat(5), Body("t3", 200))

Queries == {"k1", "k2", "k3"}
\* The index's ranking of the corpus for a query (deterministic index).
Ranked(query) ==
  CASE query = "k1" -> <<d1, d2>>
    [] query = "k2" -> <<d3>>
    [] OTHER -> <<>>

Min(a, b) == IF a < b THEN a ELSE b
\* retriever.invoke(query): the k closest passages, in rank order
RetrieverInvoke(query) == SubSeq(Ranked(query), 1, Min(K, Len(Ranked(query))))

\* ------------------------------------------------- retrieve_from_books
\* doc.metadata.get("source_file", "Unknown")
SourceOf(doc) == IF doc.source_file = MISSING THEN "Unknown" ELSE doc.source_file
\* doc.metadata.get("page", "Unknown")
PageOf(doc) == IF doc.page.kind = "missing" THEN PgStr ELSE doc.page
\* int(x) of a float counted in halves: truncation toward zero
TruncHalf(h) == IF h >= 0 THEN h \div 2 ELSE -((-h) \div 2)
\* int(page) if isinstance(page, (int, float)) else 0
PageInt(page) ==
  IF page.kind = "int" THEN page.num
  ELSE IF page.kind = "float" THEN TruncHalf(page.num)
  ELSE 0
\* (mutant) the cut is made from 200 characters on
PreviewFromLimit(body) ==
  IF body.len >= PREVIEW_LEN
  THEN [id |-> body.id, len |-> PREVIEW_LEN, ellipsis |-> TRUE]
  ELSE [id |-> body.id, len |-> body.len, ellipsis |-> FALSE]
\* the number of characters of a preview
PreviewChars(p) == p.len + IF p.ellipsis THEN ELLIPSIS_LEN ELSE 0
\* page_content[:200] + "..." if len(page_content) > 200 else page_content
Preview(body) ==
  IF body.len > PREVIEW_LEN
  THEN [id |-> body.id, len |-> PREVIEW_LEN, ellipsis |-> TRUE]
  ELSE [id |-> body.id, len |-> body.len, ellipsis |-> FALSE]
\* the dict appended to retrieved_sources
SourceEntry(doc) ==
  [source_file |-> SourceOf(doc),
   page |-> PageInt(PageOf(doc)),
   content_preview |-> Preview(doc.page_content)]
\* f"[Source: {source}, Page: {page}]\n{doc.page_content}"
ResultBlock(doc) ==
  [source |-> SourceOf(doc), page |-> PageOf(doc), text |-> doc.page_content]
\* (mutant) no marker: the joined blocks, also when there is none
ToolResultJoined(docs) ==
  Passages([i \in 1..Len(docs) |-> ResultBlock(docs[i])])
\* the tool's return value for the documents found
ToolResult(docs) ==
  IF docs = <<>> THEN NO_INFO
  ELSE Passages([i \in 1..Len(docs) |-> ResultBlock(docs[i])])

\* ---------------------------------------------------------------- turns
HumanMessage(c) == [role |-> "user", content |-> c, tool_calls |-> <<>>]
AIMessage(c, tcs) == [role |-> "assistant", content |-> c, tool_calls |-> tcs]
ToolMessage(c) == [role |-> "tool", content |-> c, tool_calls |-> <<>>]
Last(s) == s[Len(s)]
IsPrefix(s, t) == Len(s) <= Len(t) /\ SubSeq(t, 1, Len(s)) = s

\* What the routing model may return: a direct answer, or tool calls.
\* a text in which the word tool_calls occurs
ABOUT_TOOL_CALLS == Text("explain tool_calls")
DirectAnswers == {Text("a1"), ABOUT_TOOL_CALLS, EmptyContent}
ToolCallChoices == {<<"k1">>, <<"k3">>, <<"k1", "k2">>}
RouterOutputs ==
  {AIMessage(c, <<>>) : c \in DirectAnswers}
    \cup {AIMessage(EmptyContent, tcs) : tcs \in ToolCallChoices}
GraderOutputs == {"yes", "no", "Yes", "maybe", ""}
RewriterOutputs == {Text("w1"), EmptyContent}
GeneratorOutputs == {Text("g1"), EmptyContent}

\* ------------------------------------------------------------- responses
NoSources == [present |-> FALSE, list |-> <<>>]
SomeSources(l) == [present |-> TRUE, list |-> l]
NoResponse ==
  [status |-> 0, question |-> "", answer |-> EmptyContent,
   sources |-> NoSources, detail |-> ""]
\* QuestionResponse(question=..., answer=...), sources default None
QuestionResponse(q, a, srcs) ==
  [status |-> 200, question |-> q, answer |-> a, sources |-> srcs, detail |-> ""]
\* HTTPException(status_code=500, detail=...)
HTTPException(detail) ==
  [status |-> 500, question |-> "", answer |-> EmptyContent,
   sources |-> NoSources, detail |-> detail]
NoRequest == [question |-> "", include_sources |-> FALSE]
NoVerdict == "<none>"
NoContext == Text("<none>")

VARIABLES
  retrieved_sources,  \* the module-global list (api.py:109)
  recursion_limit,    \* the graph run's super-step budget
  pc,                 \* per request: where the handler / graph run is
  request,            \* per request: the QuestionRequest
  messages,           \* per request: MessagesState["messages"]
  steps,              \* per request: super-steps executed by the run
  calls,              \* per request: the tool calls of the running ToolNode
  verdict,            \* per request: binary_score of the grading just made
  gen_context,        \* per request: the context given to the generator
  found_at_entry,     \* per request: retrieved_sources as the handler found it
  response,           \* per request: what the caller receives
  prompt,             \* per request: the inputs of the latest model call
  applied,            \* a helper applied to an argument, with its value
  ingest              \* the ingestion run of generate_embeddings.py

vars ==
  <<retrieved_sources, recursion_limit, pc, request, messages, steps, calls,
    verdict, gen_context, found_at_entry, response, prompt, applied, ingest>>


\* ----------------------------------------------------------- graph wiring
\* MessagesState's reducer: a node's messages are appended to the list
add_messages(msgs, new) == msgs \o new
\* (mutant) every routing output is sent to the retrieve node
AlwaysRetrieve(msg) == "retrieve"
\* tools_condition with the path map {"tools": "retrieve", END: END}
tools_condition(msg) == IF msg.tool_calls # <<>> THEN "retrieve" ELSE "end"
\* grade_documents' return value for a binary_score
GradeRoute(score) == IF score = "yes" THEN "generate" ELSE "rewrite"
\* question = state["messages"][0].content
OriginalQuestion(msgs) == msgs[1].content
\* grade_documents: context = state["messages"][-1].content
GradeContext(msgs) == Last(msgs).content
\* (mutant) the context is the first tool result of the conversation
StaleContext(msgs) == msgs[3].content
\* generate_answer: context = state["messages"][-1].content
GenerateContext(msgs) == Last(msgs).content
\* (mutant) the answer is read from the first turn
FirstTurnContent(msgs) == msgs[1].content
\* ask_question: final_response = result["messages"][-1].content
FinalResponse(msgs) == Last(msgs).content
\* (mutant) the rewritten query replaces turn 0 instead of being appended
RewriteSubstitutes(msgs, w) == [msgs EXCEPT ![1] = HumanMessage(w)]
\* rewrite_question's update: {"messages": [HumanMessage(content=...)]}
RewriteUpdate(msgs, w) == add_messages(msgs, <<HumanMessage(w)>>)
\* generate_answer's update: {"messages": [response]}
GenerateUpdate(msgs, a) == add_messages(msgs, <<AIMessage(a, <<>>)>>)
\* What a model call is given: the calling node and its inputs.
Prompt(node, q, ctx, msgs) ==
  [node |-> node, question |-> q, context |-> ctx, msgs |-> msgs]
NoPrompt == Prompt("none", NoContext, NoContext, <<>>)
NoApplied == [fn |-> "none", arg |-> 0, val |-> 0]
\* no ingestion is running
NoIngest == [ipc |-> "none"]
\* (mutant) the router is given the latest turn only
RouterPromptLatest(msgs) == Prompt("router", NoContext, NoContext, <<Last(msgs)>>)
\* generate_query_or_respond: .invoke(state["messages"])
RouterPrompt(msgs) == Prompt("router", NoContext, NoContext, msgs)
\* grade_documents: GRADE_PROMPT.format(question=question, context=context)
GraderPrompt(msgs) ==
  Prompt("grader", OriginalQuestion(msgs), GradeContext(msgs), <<>>)
\* (mutant) the rewriter is given the latest user turn
LatestUserTurn(msgs) ==
  LET i == CHOOSE k \in 1..Len(msgs) :
             /\ msgs[k].role = "user"
             /\ \A j \in (k + 1)..Len(msgs) : msgs[j].role # "user"
  IN msgs[i].content
\* rewrite_question: question = messages[0].content
RewriteQuestion(msgs) == msgs[1].content
\* rewrite_question: REWRITE_PROMPT.format(question=question)
RewriterPrompt(msgs) == Prompt("rewriter", RewriteQuestion(msgs), NoContext, <<>>)
\* generate_answer: question = messages[0].content
GenerateQuestion(msgs) == msgs[1].content
\* generate_answer: GENERATE_PROMPT.format(question=question, context=context)
GeneratorPrompt(msgs) ==
  Prompt("generator", GenerateQuestion(msgs), GenerateContext(msgs), <<>>)
\* (mutant) the ToolNode appends no tool message
ToolNodeNoUpdate(msgs, cs) == msgs
\* the ToolNode's update: one tool message per tool call, in call order
ToolNodeUpdate(msgs, cs) ==
  add_messages(msgs,
    [i \in 1..Len(cs) |-> ToolMessage(ToolResult(RetrieverInvoke(cs[i].query)))])
\* the tool calls of a routing output, each about to run retrieve_from_books
StartCalls(msg) ==
  [i \in 1..Len(msg.tool_calls) |->
     [query |-> msg.tool_calls[i], tpc |-> "start", next |-> 0]]

\* ----------------------------------------------------------- ask_question
\* (mutant) the handler does not reset the list
KeepSources == retrieved_sources
\* "Reset sources": retrieved_sources = [] at the top of the handler
ResetSources == <<>>
\* retrieved_sources = [] at the top of retrieve_from_books
ToolResetSources == <<>>
\* if request.include_sources and retrieved_sources: response.sources = [...]
ResponseSources(include, srcs) ==
  IF include /\ srcs # <<>> THEN SomeSources(srcs) ELSE NoSources
\* except Exception as e: raise HTTPException(500, f"An error occurred: ...")
ErrorResponse == HTTPException("An error occurred")
\* if not final_response: raise HTTPException(500, "Failed to generate ...")
EmptyResponse == HTTPException("Failed to generate a response")

Init ==
  /\ retrieved_sources = <<>>
  /\ recursion_limit = MaxSteps
  /\ pc = [r \in Reqs |-> "idle"]
  /\ request = [r \in Reqs |-> NoRequest]
  /\ messages = [r \in Reqs |-> <<>>]
  /\ steps = [r \in Reqs |-> 0]
  /\ calls = [r \in Reqs |-> <<>>]
  /\ verdict = [r \in Reqs |-> NoVerdict]
  /\ gen_context = [r \in Reqs |-> NoContext]
  /\ found_at_entry = [r \in Reqs |-> <<>>]
  /\ response = [r \in Reqs |-> NoResponse]
  /\ prompt = [r \in Reqs |-> NoPrompt]
  /\ applied = NoApplied
  /\ ingest = NoIngest

\* An exception leaves the graph run and reaches the handler's except clause.
Raise(r) ==
  /\ pc' = [pc EXCEPT ![r] = "failed"]
  /\ response' = [response EXCEPT ![r] = ErrorResponse]
  /\ calls' = [calls EXCEPT ![r] = <<>>]
  /\ verdict' = [verdict EXCEPT ![r] = NoVerdict]
  /\ prompt' = [prompt EXCEPT ![r] = NoPrompt]
  /\ UNCHANGED <<ingest, applied, retrieved_sources, recursion_limit, request, messages,
                 steps, gen_context, found_at_entry>>

\* ask_question up to graph.invoke: reset the sources, start the run with the
\* question as the only message
ask_question(r, q, inc) ==
  /\ pc[r] = "idle"
  /\ found_at_entry' = [found_at_entry EXCEPT ![r] = retrieved_sources]
  /\ retrieved_sources' = ResetSources
  /\ request' = [request EXCEPT ![r] = [question |-> q, include_sources |-> inc]]
  /\ messages' = [messages EXCEPT ![r] = <<HumanMessage(Text(q))>>]
  /\ steps' = [steps EXCEPT ![r] = 0]
  /\ pc' = [pc EXCEPT ![r] = "route"]
  /\ UNCHANGED <<ingest, prompt, applied, recursion_limit, calls, verdict, gen_context, response>>

\* node generate_query_or_respond, then the conditional edge tools_condition
generate_query_or_respond(r) ==
  /\ pc[r] = "route"
  /\ steps[r] < recursion_limit
  /\ \E out \in RouterOutputs :
       /\ messages' = [messages EXCEPT ![r] = add_messages(@, <<out>>)]
       /\ pc' = [pc EXCEPT ![r] = tools_condition(out)]
       /\ calls' = [calls EXCEPT ![r] = StartCalls(out)]
  /\ steps' = [steps EXCEPT ![r] = @ + 1]
  /\ found_at_entry' = [found_at_entry EXCEPT ![r] = <<>>]
  /\ prompt' = [prompt EXCEPT ![r] = RouterPrompt(messages[r])]
  /\ UNCHANGED <<ingest, applied, retrieved_sources, recursion_limit, request, verdict,
                 gen_context, response>>

\* the routing model call raises
generate_query_or_respond_raises(r) ==
  /\ pc[r] = "route"
  /\ steps[r] < recursion_limit
  /\ Raise(r)


\* -------------------------------------------------- node retrieve (ToolNode)
\* The ToolNode runs the tool calls of the last assistant message, each on a
\* thread of its executor, and joins them.  One call of retrieve_from_books:
\* start -> (reset the global) -> invoke -> (search the index) -> append,
\* one entry per document -> done.
DocsOf(call) == RetrieverInvoke(call.query)
Joined(cs) == \A i \in 1..Len(cs) : cs[i].tpc \in {"done", "raised"}

\* global retrieved_sources; retrieved_sources = []
call_reset(r, c) ==
  /\ pc[r] = "retrieve"
  /\ steps[r] < recursion_limit
  /\ c \in 1..Len(calls[r])
  /\ calls[r][c].tpc = "start"
  /\ retrieved_sources' = ToolResetSources
  /\ calls' = [calls EXCEPT ![r][c].tpc = "invoke"]
  /\ UNCHANGED <<ingest, prompt, applied, recursion_limit, pc, request, messages, steps, verdict,
                 gen_context, found_at_entry, response>>

\* docs = retriever.invoke(query); if not docs: return "No relevant ..."
call_invoke(r, c) ==
  /\ pc[r] = "retrieve"
  /\ c \in 1..Len(calls[r])
  /\ calls[r][c].tpc = "invoke"
  /\ calls' = [calls EXCEPT ![r][c] =
                 IF DocsOf(@) = <<>>
                 THEN [@ EXCEPT !.tpc = "done"]
                 ELSE [@ EXCEPT !.tpc = "append", !.next = 1]]
  /\ UNCHANGED <<ingest, prompt, applied, retrieved_sources, recursion_limit, pc, request, messages,
                 steps, verdict, gen_context, found_at_entry, response>>

\* the index or the embedding call raises
call_invoke_raises(r, c) ==
  /\ pc[r] = "retrieve"
  /\ c \in 1..Len(calls[r])
  /\ calls[r][c].tpc = "invoke"
  /\ calls' = [calls EXCEPT ![r][c].tpc = "raised"]
  /\ UNCHANGED <<ingest, prompt, applied, retrieved_sources, recursion_limit, pc, request, messages,
                 steps, verdict, gen_context, found_at_entry, response>>

\* one turn of the loop: retrieved_sources.append({...}); results.append(...)
call_append(r, c) ==
  /\ pc[r] = "retrieve"
  /\ c \in 1..Len(calls[r])
  /\ calls[r][c].tpc = "append"
  /\ LET call == calls[r][c]
         docs == DocsOf(call)
     IN /\ retrieved_sources' =
             Append(retrieved_sources, SourceEntry(docs[call.next]))
        /\ calls' = [calls EXCEPT ![r][c] =
                       IF call.next = Len(docs)
                       THEN [@ EXCEPT !.tpc = "done", !.next = 0]
                       ELSE [@ EXCEPT !.next = @ + 1]]
  /\ UNCHANGED <<ingest, prompt, applied, recursion_limit, pc, request, messages, steps, verdict,
                 gen_context, found_at_entry, response>>

\* every call returned: the tool messages are appended, grading comes next
tool_node_returns(r) ==
  /\ pc[r] = "retrieve"
  /\ calls[r] # <<>>
  /\ \A i \in 1..Len(calls[r]) : calls[r][i].tpc = "done"
  /\ messages' = [messages EXCEPT ![r] = ToolNodeUpdate(@, calls[r])]
  /\ steps' = [steps EXCEPT ![r] = @ + 1]
  /\ calls' = [calls EXCEPT ![r] = <<>>]
  /\ pc' = [pc EXCEPT ![r] = "grade"]
  /\ UNCHANGED <<ingest, prompt, applied, retrieved_sources, recursion_limit, request, verdict,
                 gen_context, found_at_entry, response>>

\* (mutant) a raising call is turned into an error tool message and the run
\* goes on to grading
tool_node_swallows(r) ==
  /\ pc[r] = "retrieve"
  /\ Joined(calls[r])
  /\ \E i \in 1..Len(calls[r]) : calls[r][i].tpc = "raised"
  /\ messages' = [messages EXCEPT ![r] = add_messages(@, <<ToolMessage(Text("Error"))>>)]
  /\ steps' = [steps EXCEPT ![r] = @ + 1]
  /\ calls' = [calls EXCEPT ![r] = <<>>]
  /\ pc' = [pc EXCEPT ![r] = "grade"]
  /\ UNCHANGED <<ingest, prompt, applied, retrieved_sources, recursion_limit, request, verdict,
                 gen_context, found_at_entry, response>>

\* a call raised: the executor joins the other calls, then the error leaves
tool_node_raises(r) ==
  /\ pc[r] = "retrieve"
  /\ Joined(calls[r])
  /\ \E i \in 1..Len(calls[r]) : calls[r][i].tpc = "raised"
  /\ Raise(r)

\* ------------------------------------------------ edge grade_documents
grade_documents(r) ==
  /\ pc[r] = "grade"
  /\ \E score \in GraderOutputs :
       /\ verdict' = [verdict EXCEPT ![r] = score]
       /\ pc' = [pc EXCEPT ![r] = GradeRoute(score)]
  /\ prompt' = [prompt EXCEPT ![r] = GraderPrompt(messages[r])]
  /\ UNCHANGED <<ingest, applied, retrieved_sources, recursion_limit, request, messages, steps,
                 calls, gen_context, found_at_entry, response>>

grade_documents_raises(r) ==
  /\ pc[r] = "grade"
  /\ Raise(r)

\* ------------------------------------------------- node rewrite_question
rewrite_question(r) ==
  /\ pc[r] = "rewrite"
  /\ steps[r] < recursion_limit
  /\ \E w \in RewriterOutputs :
       messages' = [messages EXCEPT ![r] = RewriteUpdate(@, w)]
  /\ steps' = [steps EXCEPT ![r] = @ + 1]
  /\ verdict' = [verdict EXCEPT ![r] = NoVerdict]
  /\ pc' = [pc EXCEPT ![r] = "route"]
  /\ prompt' = [prompt EXCEPT ![r] = RewriterPrompt(messages[r])]
  /\ UNCHANGED <<ingest, applied, retrieved_sources, recursion_limit, request, calls,
                 gen_context, found_at_entry, response>>

rewrite_question_raises(r) ==
  /\ pc[r] = "rewrite"
  /\ steps[r] < recursion_limit
  /\ Raise(r)

\* -------------------------------------------------- node generate_answer
generate_answer(r) ==
  /\ pc[r] = "generate"
  /\ steps[r] < recursion_limit
  /\ gen_context' = [gen_context EXCEPT ![r] = GenerateContext(messages[r])]
  /\ \E a \in GeneratorOutputs :
       messages' = [messages EXCEPT ![r] = GenerateUpdate(@, a)]
  /\ steps' = [steps EXCEPT ![r] = @ + 1]
  /\ verdict' = [verdict EXCEPT ![r] = NoVerdict]
  /\ pc' = [pc EXCEPT ![r] = "end"]
  /\ prompt' = [prompt EXCEPT ![r] = GeneratorPrompt(messages[r])]
  /\ UNCHANGED <<ingest, applied, retrieved_sources, recursion_limit, request, calls,
                 found_at_entry, response>>

generate_answer_raises(r) ==
  /\ pc[r] = "generate"
  /\ steps[r] < recursion_limit
  /\ Raise(r)

\* The run has used its budget and a node is still due: the graph library
\* raises its recursion error out of graph.invoke.
recursion_error(r) ==
  /\ pc[r] \in {"route", "retrieve", "rewrite", "generate"}
  /\ steps[r] >= recursion_limit
  /\ Raise(r)

\* ------------------------------------------- ask_question after the run
\* final_response = result["messages"][-1].content, truthy: the response
respond(r) ==
  /\ pc[r] = "end"
  /\ Truthy(FinalResponse(messages[r]))
  /\ response' = [response EXCEPT ![r] =
       QuestionResponse(request[r].question, FinalResponse(messages[r]),
                        ResponseSources(request[r].include_sources,
                                        retrieved_sources))]
  /\ pc' = [pc EXCEPT ![r] = "done"]
  /\ UNCHANGED <<ingest, prompt, applied, retrieved_sources, recursion_limit, request, messages, steps,
                 calls, verdict, gen_context, found_at_entry>>

\* if not final_response: raise HTTPException(500, ...)
respond_empty(r) ==
  /\ pc[r] = "end"
  /\ ~Truthy(FinalResponse(messages[r]))
  /\ response' = [response EXCEPT ![r] = EmptyResponse]
  /\ pc' = [pc EXCEPT ![r] = "failed"]
  /\ UNCHANGED <<ingest, prompt, applied, retrieved_sources, recursion_limit, request, messages, steps,
                 calls, verdict, gen_context, found_at_entry>>

\* The handler has returned or raised: its locals are gone, the global stays.
handler_exit(r) ==
  /\ pc[r] \in {"done", "failed"}
  /\ pc' = [pc EXCEPT ![r] = "idle"]
  /\ request' = [request EXCEPT ![r] = NoRequest]
  /\ messages' = [messages EXCEPT ![r] = <<>>]
  /\ steps' = [steps EXCEPT ![r] = 0]
  /\ gen_context' = [gen_context EXCEPT ![r] = NoContext]
  /\ response' = [response EXCEPT ![r] = NoResponse]
  /\ prompt' = [prompt EXCEPT ![r] = NoPrompt]
  /\ UNCHANGED <<ingest, applied, retrieved_sources, recursion_limit, calls, verdict,
                 found_at_entry>>

\* ------------------------------------------------------ specifications
\* Every step of graph.invoke / graph.stream: the nodes, the edges, and the
\* exceptions that leave the run.
GraphRun(r) ==
  \/ generate_query_or_respond(r)
  \/ generate_query_or_respond_raises(r)
  \/ \E c \in 1..2 : call_reset(r, c)
  \/ \E c \in 1..2 : call_invoke(r, c)
  \/ \E c \in 1..2 : call_invoke_raises(r, c)
  \/ \E c \in 1..2 : call_append(r, c)
  \/ tool_node_returns(r)
  \/ tool_node_raises(r)
  \/ grade_documents(r)
  \/ grade_documents_raises(r)
  \/ rewrite_question(r)
  \/ rewrite_question_raises(r)
  \/ generate_answer(r)
  \/ generate_answer_raises(r)
  \/ recursion_error(r)

\* Every step of a request from the start of the graph run to the response.
Handle(r) == GraphRun(r) \/ respond(r) \/ respond_empty(r)

\* Every step of a request after the handler was entered.
Run(r) == Handle(r) \/ handler_exit(r)

\* The service as api.py runs it (uvicorn, one event loop): ask_question is a
\* coroutine that never awaits, so a request is handled to its end before the
\* next one is taken.  Within a request the ToolNode's calls run in parallel.
Serve(r) ==
  /\ \A o \in Reqs : pc[o] = "idle"
  /\ \E inc \in BOOLEAN : ask_question(r, QuestionOf(r), inc)

Next == \E r \in Reqs : Serve(r) \/ Run(r)

Spec == Init /\ [][Next]_vars

\* Handler executions that overlap (a host that runs handlers on threads).
InitConc ==
  /\ retrieved_sources = <<>>
  /\ recursion_limit = ConcSteps
  /\ pc = [r \in Reqs |-> "idle"]
  /\ request = [r \in Reqs |-> NoRequest]
  /\ messages = [r \in Reqs |-> <<>>]
  /\ steps = [r \in Reqs |-> 0]
  /\ calls = [r \in Reqs |-> <<>>]
  /\ verdict = [r \in Reqs |-> NoVerdict]
  /\ gen_context = [r \in Reqs |-> NoContext]
  /\ found_at_entry = [r \in Reqs |-> <<>>]
  /\ response = [r \in Reqs |-> NoResponse]
  /\ prompt = [r \in Reqs |-> NoPrompt]
  /\ applied = NoApplied
  /\ ingest = NoIngest

ServeConc(r) == \E inc \in BOOLEAN : ask_question(r, QuestionOf(r), inc)

NextConc == \E r \in Reqs : ServeConc(r) \/ Run(r)

SpecConc == InitConc /\ [][NextConc]_vars

\* The content_preview expression of retrieve_from_books on its own, applied
\* to a page_content of every length up to MaxTextLen.
content_preview(n) ==
  /\ applied' = [fn |-> "content_preview", arg |-> Body("t", n),
                 val |-> Preview(Body("t", n))]
  /\ UNCHANGED <<ingest, retrieved_sources, recursion_limit, pc, request, messages,
                 steps, calls, verdict, gen_context, found_at_entry, response,
                 prompt>>

NextPreview == \E n \in 0..MaxTextLen : content_preview(n)

SpecPreview == Init /\ [][NextPreview]_vars

\* every variable of the question-answering service
ServiceVars ==
  <<retrieved_sources, recursion_limit, pc, request, messages, steps, calls,
    verdict, gen_context, found_at_entry, response, prompt>>

\* The page expression of retrieve_from_books on its own, applied to every
\* kind of stored page metadata: ints and floats of either sign, a str, or
\* no page key at all.
PageValues ==
  {PgInt(n) : n \in (-MaxPage)..MaxPage}
    \cup {PgFloat(h) : h \in (-2 * MaxPage)..(2 * MaxPage)}
    \cup {PgStr, PgMissing}
source_page(pg) ==
  /\ applied' = [fn |-> "page", arg |-> pg,
                 val |-> SourceEntry(Doc("f.pdf", pg, Body("t", 1))).page]
  /\ UNCHANGED <<ServiceVars, ingest>>

NextPage == \E pg \in PageValues : source_page(pg)

SpecPage == Init /\ [][NextPage]_vars

\* The same request handled twice in sequence, with deterministic
\* collaborators: First's handling runs from the initial state and its
\* conversation and response stay on record; Second's handling starts when
\* First's has ended, and every model or index call of it is given the same
\* inputs as the call at the same place of First's run, so it returns (or
\* raises) the same.  The scheduling of the ToolNode's threads is not a
\* collaborator and stays free.
First == "A"
Second == "B"
\* the call returns what it returned in First's run
SameOutputs == IsPrefix(messages'[Second], messages[First])
\* the grader returns the verdict it returned in First's run
SameVerdict ==
  Len(messages[First]) > Len(messages[Second]) =>
    pc'[Second] = IF messages[First][Len(messages[Second]) + 1].role = "user"
                  THEN "rewrite" ELSE "generate"
\* the call raises where First's run raised
SameFailure ==
  /\ messages[Second] = messages[First]
  /\ response[First] = ErrorResponse
ServeFirst ==
  /\ \A o \in Reqs : pc[o] = "idle"
  /\ \E inc \in BOOLEAN : ask_question(First, QuestionOf(First), inc)
ServeSecond ==
  /\ pc[First] \in {"done", "failed"}
  /\ response[Second] = NoResponse
  /\ ask_question(Second, request[First].question,
                  request[First].include_sources)
ReplayGraph ==
  \/ generate_query_or_respond(Second) /\ SameOutputs
  \/ generate_query_or_respond_raises(Second) /\ SameFailure
  \/ \E c \in 1..2 : call_reset(Second, c)
  \/ \E c \in 1..2 : call_invoke(Second, c)
  \/ \E c \in 1..2 : call_invoke_raises(Second, c) /\ SameFailure
  \/ \E c \in 1..2 : call_append(Second, c)
  \/ tool_node_returns(Second) /\ SameOutputs
  \/ tool_node_raises(Second)
  \/ grade_documents(Second) /\ SameVerdict
  \/ grade_documents_raises(Second) /\ SameFailure
  \/ rewrite_question(Second) /\ SameOutputs
  \/ rewrite_question_raises(Second) /\ SameFailure
  \/ generate_answer(Second) /\ SameOutputs
  \/ generate_answer_raises(Second) /\ SameFailure
  \/ recursion_error(Second)

Replay == ReplayGraph \/ respond(Second) \/ respond_empty(Second)

NextTwice == ServeFirst \/ Handle(First) \/ ServeSecond \/ Replay

SpecTwice == Init /\ [][NextTwice]_vars

\* ---------------------------------------------------------- health_check
\* HealthResponse(status=..., qdrant_connected=..., collection_exists=...,
\* documents_count=...)
HealthResponse(status, connected, exists, count) ==
  [status |-> status, qdrant_connected |-> connected,
   collection_exists |-> exists, documents_count |-> count]
\* client.get_collection(COLLECTION_NAME): the collection's info with its
\* point count, or an exception
LookupOutcomes ==
  {[raised |-> FALSE, points_count |-> n] : n \in 0..MaxPoints}
    \cup {[raised |-> TRUE, points_count |-> 0]}
\* (mutant) the except clause reports the service as healthy
HealthIgnoringErrors(lookup) ==
  HealthResponse("healthy", TRUE, TRUE, lookup.points_count)
\* try: ... return HealthResponse("healthy", ...) except Exception: return
\* HealthResponse("unhealthy", ...)
HealthOf(lookup) ==
  IF lookup.raised
  THEN HealthResponse("unhealthy", FALSE, FALSE, 0)
  ELSE HealthResponse("healthy", TRUE, TRUE, lookup.points_count)
\* GET /health, served between two requests of the one event loop
health_check(lookup) ==
  /\ \A o \in Reqs : pc[o] = "idle"
  /\ applied' = [fn |-> "health_check", arg |-> lookup, val |-> HealthOf(lookup)]
  /\ UNCHANGED <<ServiceVars, ingest>>

NextHealth ==
  \/ ServeFirst
  \/ Run(First)
  \/ \E lookup \in LookupOutcomes : health_check(lookup)

SpecHealth == Init /\ [][NextHealth]_vars

\* ------------------------------------- generate_embeddings.py: batch loop
\* (mutant) the slice starts one element late
SliceFromNext(s, i, j) == SubSeq(s, i + 2, Min(j, Len(s)))
\* Python's s[i:j] for 0 <= i <= j
Slice(s, i, j) == SubSeq(s, i + 1, Min(j, Len(s)))
\* for i in range(0, len(chunks), batch_size): the calls of
\* vector_store.add_documents and the counts printed, from index i on
RECURSIVE BatchLoop(_, _)
BatchLoop(chunks, i) ==
  IF i >= Len(chunks) THEN <<>>
  ELSE <<[batch |-> Slice(chunks, i, i + BATCH_SIZE),
          processed |-> Min(i + BATCH_SIZE, Len(chunks))]>>
         \o BatchLoop(chunks, i + BATCH_SIZE)
\* the chunks of a run, known by their position in the list
Chunks(n) == [k \in 1..n |-> k]
\* the batch loop of main on n chunks
add_in_batches(n) ==
  /\ applied' = [fn |-> "batches", arg |-> Chunks(n),
                 val |-> BatchLoop(Chunks(n), 0)]
  /\ UNCHANGED <<ServiceVars, ingest>>

NextBatch == \E n \in 0..MaxChunks : add_in_batches(n)

SpecBatch == Init /\ [][NextBatch]_vars

\* ------------------------------------------ generate_embeddings.py: main
\* The collection: whether it exists, whether it holds the points it held
\* before the run, and how many chunks of this run it holds.
Collection(exists, old, new) == [exists |-> exists, old |-> old, new |-> new]
\* what main may find: no collection, an empty one, or one with points
CollectionsBefore ==
  {Collection(FALSE, FALSE, 0), Collection(TRUE, FALSE, 0),
   Collection(TRUE, TRUE, 0)}
\* the numbers of chunks split_documents may return
ChunkCounts == {0, 1, BATCH_SIZE, BATCH_SIZE + 1}
\* (mutant) main goes on with an empty document list
NeverEmpty(documents) == FALSE
\* if not documents
NoDocuments(documents) == documents = 0
\* client.delete_collection(collection_name)
DeleteCollection(c) == Collection(FALSE, FALSE, 0)
\* client.create_collection(...) where no collection is
CreateCollection(c) == Collection(TRUE, c.old, c.new)

InitIngest ==
  /\ retrieved_sources = <<>>
  /\ recursion_limit = MaxSteps
  /\ pc = [r \in Reqs |-> "idle"]
  /\ request = [r \in Reqs |-> NoRequest]
  /\ messages = [r \in Reqs |-> <<>>]
  /\ steps = [r \in Reqs |-> 0]
  /\ calls = [r \in Reqs |-> <<>>]
  /\ verdict = [r \in Reqs |-> NoVerdict]
  /\ gen_context = [r \in Reqs |-> NoContext]
  /\ found_at_entry = [r \in Reqs |-> <<>>]
  /\ response = [r \in Reqs |-> NoResponse]
  /\ prompt = [r \in Reqs |-> NoPrompt]
  /\ applied = NoApplied
  /\ ingest \in {[ipc |-> "start", key |-> k, documents |-> 0, chunks |-> 0,
                   before |-> c, collection |-> c] :
                    k \in BOOLEAN, c \in CollectionsBefore}

\* if not os.getenv("OPENAI_API_KEY"): return
main_key ==
  /\ ingest.ipc = "start"
  /\ ingest' = [ingest EXCEPT !.ipc = IF ingest.key THEN "load" ELSE "returned"]
  /\ UNCHANGED <<ServiceVars, applied>>
\* documents = load_pdfs(BOOKS_DIR); if not documents: return
main_load ==
  /\ ingest.ipc = "load"
  /\ \E d \in 0..MaxDocs :
       ingest' = [ingest EXCEPT !.documents = d,
                    !.ipc = IF NoDocuments(d) THEN "returned" ELSE "split"]
  /\ UNCHANGED <<ServiceVars, applied>>
\* chunks = split_documents(documents)
main_split ==
  /\ ingest.ipc = "split"
  /\ \E n \in ChunkCounts :
       ingest' = [ingest EXCEPT !.chunks = n, !.ipc = "embed"]
  /\ UNCHANGED <<ServiceVars, applied>>
\* sample_embedding = embeddings.embed_query("sample text"); client = ...
main_embed ==
  /\ ingest.ipc = "embed"
  /\ ingest' = [ingest EXCEPT !.ipc = "exists"]
  /\ UNCHANGED <<ServiceVars, applied>>
\* a call to the embedding service or to Qdrant raises: main is left
main_raises ==
  /\ ingest.ipc \in {"embed", "exists", "delete", "create", "store"}
  /\ ingest' = [ingest EXCEPT !.ipc = "aborted"]
  /\ UNCHANGED <<ServiceVars, applied>>
\* create_qdrant_collection: if client.collection_exists(collection_name)
collection_exists ==
  /\ ingest.ipc = "exists"
  /\ ingest' = [ingest EXCEPT
                  !.ipc = IF ingest.collection.exists THEN "delete" ELSE "create"]
  /\ UNCHANGED <<ServiceVars, applied>>
\* create_qdrant_collection: client.delete_collection(collection_name)
delete_collection ==
  /\ ingest.ipc = "delete"
  /\ ingest' = [ingest EXCEPT !.collection = DeleteCollection(@), !.ipc = "create"]
  /\ UNCHANGED <<ServiceVars, applied>>
\* create_qdrant_collection: client.create_collection(...), and return
create_collection ==
  /\ ingest.ipc = "create"
  /\ ingest' = [ingest EXCEPT !.collection = CreateCollection(@), !.ipc = "created"]
  /\ UNCHANGED <<ServiceVars, applied>>
\* vector_store = QdrantVectorStore(...); the batch loop is entered
main_vector_store ==
  /\ ingest.ipc = "created"
  /\ ingest' = [ingest EXCEPT !.ipc = "store"]
  /\ UNCHANGED <<ServiceVars, applied>>
\* vector_store.add_documents(batch), for the next batch
main_add_documents ==
  /\ ingest.ipc = "store"
  /\ ingest.collection.new < ingest.chunks
  /\ ingest' = [ingest EXCEPT
                  !.collection.new = Min(@ + BATCH_SIZE, ingest.chunks)]
  /\ UNCHANGED <<ServiceVars, applied>>
\* the loop has ended: main returns
main_done ==
  /\ ingest.ipc = "store"
  /\ ingest.collection.new >= ingest.chunks
  /\ ingest' = [ingest EXCEPT !.ipc = "done"]
  /\ UNCHANGED <<ServiceVars, applied>>

NextIngest ==
  \/ main_key
  \/ main_load
  \/ main_split
  \/ main_embed
  \/ main_raises
  \/ collection_exists
  \/ delete_collection
  \/ create_collection
  \/ main_vector_store
  \/ main_add_documents
  \/ main_done

SpecIngest == InitIngest /\ [][NextIngest]_vars

\* ------------------------------------- generate_embeddings.py: load_pdfs
\* What loading one PDF does: loader.load() raises, or returns its pages.
FileOutcomes ==
  {[raises |-> TRUE, pages |-> 0]} \cup
  {[raises |-> FALSE, pages |-> n] : n \in 0..MaxPages}
\* books_dir.glob("*.pdf"): the files found, by position; pdf_path is the
\* position
Directories == UNION {[1..n -> FileOutcomes] : n \in 0..MaxFiles}
\* pdf_path.name
PdfName(pdf_path) == <<"a.pdf", "b.pdf", "c.pdf", "d.pdf">>[pdf_path]
\* loader.load(): one document per page, with the loader's own metadata
LoaderLoad(pdf_path, file) ==
  [j \in 1..file.pages |-> [source |-> pdf_path, page |-> j - 1]]
\* doc.metadata["source_file"] = pdf_path.name
AddSourceFile(doc, pdf_path) ==
  [source |-> doc.source, page |-> doc.page, source_file |-> PdfName(pdf_path)]
\* (mutant) a failing file discards what was loaded before it
LoadOneOrReset(documents, pdf_path, file) ==
  IF file.raises THEN <<>>
  ELSE documents \o [j \in 1..file.pages |->
                       AddSourceFile(LoaderLoad(pdf_path, file)[j], pdf_path)]
\* the body of the loop: try: load, tag, extend; except Exception: print
LoadOne(documents, pdf_path, file) ==
  IF file.raises THEN documents
  ELSE documents \o [j \in 1..file.pages |->
                       AddSourceFile(LoaderLoad(pdf_path, file)[j], pdf_path)]
RECURSIVE LoadLoop(_, _, _)
\* for pdf_path in pdf_files, from position i on
LoadLoop(pdf_files, i, documents) ==
  IF i > Len(pdf_files) THEN documents
  ELSE LoadLoop(pdf_files, i + 1, LoadOne(documents, i, pdf_files[i]))
\* load_pdfs(books_dir)
LoadPdfs(pdf_files) ==
  IF pdf_files = <<>> THEN <<>> ELSE LoadLoop(pdf_files, 1, <<>>)

load_pdfs(pdf_files) ==
  /\ applied = NoApplied
  /\ applied' = [fn |-> "load_pdfs", arg |-> pdf_files, val |-> LoadPdfs(pdf_files)]
  /\ UNCHANGED <<ServiceVars, ingest>>

NextLoad == \E pdf_files \in Directories : load_pdfs(pdf_files)

SpecLoad == Init /\ [][NextLoad]_vars

\* One client, with progress: graph.invoke blocks the handler until the run
\* has ended, and the ToolNode waits for its threads, so a request that has a
\* step to take takes one.
NextLive == ServeFirst \/ Run(First)

SpecLive == Init /\ [][NextLive]_vars /\ WF_vars(Run(First))

\* ------------------------------------------------- rag.py: single_query
\* rag.py builds the graph of api.py (same nodes, same edges; its tool keeps
\* no sources list), and single_query reads the answer off graph.stream's
\* updates.  The question answered by ask_question (First) is then given to
\* single_query (Second) with the collaborators returning the same outputs.
NO_RESPONSE == Text("No response generated.")
\* final_response = None
PyNone == Text("<None>")
\* "tool_calls" in str(update): the message's repr shows its content, and its
\* tool_calls field when the list is not empty
ReprHasToolCalls(msg) ==
  msg.tool_calls # <<>> \/ msg.content = ABOUT_TOOL_CALLS
\* the node whose update appended turn i (the key of the streamed chunk)
NodeOf(msgs, i) ==
  CASE msgs[i].role = "assistant" /\ msgs[i - 1].role = "tool" -> "generate_answer"
    [] msgs[i].role = "assistant" /\ msgs[i - 1].role # "tool" ->
         "generate_query_or_respond"
    [] msgs[i].role = "tool" -> "retrieve"
    [] OTHER -> "rewrite_question"
\* the loop over the streamed updates: final_response after the updates that
\* appended turns 2..n
RECURSIVE StreamedFinal(_, _)
StreamedFinal(msgs, n) ==
  IF n < 2 THEN PyNone
  ELSE IF \/ NodeOf(msgs, n) = "generate_answer"
          \/ /\ NodeOf(msgs, n) = "generate_query_or_respond"
             /\ ~ReprHasToolCalls(msgs[n])
       THEN msgs[n].content
       ELSE StreamedFinal(msgs, n - 1)
\* return final_response or "No response generated."
SingleQueryReturn(msgs) ==
  LET final_response == StreamedFinal(msgs, Len(msgs))
  IN IF final_response # PyNone /\ Truthy(final_response)
     THEN final_response ELSE NO_RESPONSE
\* the str a function returns to its caller
Returned(text) ==
  [status |-> 0, question |-> "", answer |-> text, sources |-> NoSources,
   detail |-> "returned"]
\* single_query up to graph.stream: the question is the only message
single_query(r, q) ==
  /\ pc[r] = "idle"
  /\ request' = [request EXCEPT ![r] = [question |-> q, include_sources |-> FALSE]]
  /\ messages' = [messages EXCEPT ![r] = <<HumanMessage(Text(q))>>]
  /\ steps' = [steps EXCEPT ![r] = 0]
  /\ pc' = [pc EXCEPT ![r] = "route"]
  /\ UNCHANGED <<ingest, prompt, applied, retrieved_sources, recursion_limit, calls,
                 verdict, gen_context, found_at_entry, response>>
\* the stream is exhausted: single_query returns
single_query_returns(r) ==
  /\ pc[r] = "end"
  /\ response' = [response EXCEPT ![r] = Returned(SingleQueryReturn(messages[r]))]
  /\ pc' = [pc EXCEPT ![r] = "done"]
  /\ UNCHANGED <<ingest, prompt, applied, retrieved_sources, recursion_limit, request,
                 messages, steps, calls, verdict, gen_context, found_at_entry>>
ServeCli ==
  /\ pc[First] \in {"done", "failed"}
  /\ response[Second] = NoResponse
  /\ single_query(Second, request[First].question)

NextCli ==
  ServeFirst \/ Handle(First) \/ ServeCli \/ ReplayGraph
    \/ single_query_returns(Second)

SpecCli == Init /\ [][NextCli]_vars


\* ------------------------------------------------- reading a conversation
\* the turns in which the router asked for retrieval
ToolRequests(msgs) ==
  {i \in 1..Len(msgs) : msgs[i].role = "assistant" /\ msgs[i].tool_calls # <<>>}
\* retrieval attempts made so far: tool requests already followed by results
RetrievalAttempts(msgs) == Cardinality({i \in ToolRequests(msgs) : i < Len(msgs)})
\* Rewrite steps executed so far: the user turns after turn 0
Rewrites(msgs) == Cardinality({i \in 2..Len(msgs) : msgs[i].role = "user"})
Max(S) == CHOOSE x \in S : \A y \in S : y <= x
\* the documents found by the last call of the latest retrieval attempt
LastRetrieved(msgs) ==
  IF ToolRequests(msgs) = {} THEN <<>>
  ELSE RetrieverInvoke(Last(msgs[Max(ToolRequests(msgs))].tool_calls))
\* the sources entries of a sequence of documents, one per document, in order
EntriesOf(docs) == [i \in 1..Len(docs) |-> SourceEntry(docs[i])]
\* every entry the request's own retrieval calls can have appended
EntrySet(docs) == {SourceEntry(docs[n]) : n \in 1..Len(docs)}
OwnEntries(msgs) ==
  UNION {UNION {EntrySet(RetrieverInvoke(msgs[i].tool_calls[j])) :
                  j \in 1..Len(msgs[i].tool_calls)} :
         i \in ToolRequests(msgs)}

\* ------------------------------------------------------------------ claims

\* C1 (as stated): the rewrite loop is bounded by a configured cap: a request
\* makes at most RewriteCap + 1 retrieval attempts.
C1_RetrievalsWithinCap ==
  \A r \in Reqs : RetrievalAttempts(messages[r]) <= RewriteCap + 1

\* C2 (as stated): a request never executes more than RewriteCap Rewrite
\* steps, and with the cap reached an irrelevant verdict does not lead to
\* Rewrite again.
C2_RewriteCapEnforced ==
  \A r \in Reqs :
    /\ Rewrites(messages[r]) <= RewriteCap
    /\ pc[r] = "rewrite" => Rewrites(messages[r]) < RewriteCap


\* the sources of a response as a list (None reads as no entries)
SourcesOf(resp) == resp.sources.list

Turn0IsQuestion ==
  \A r \in Reqs :
    pc[r] # "idle" =>
      /\ Len(messages[r]) >= 1
      /\ messages[r][1] = HumanMessage(Text(request[r].question))
\* a step of a request keeps the turns it found
AppendOnly ==
  \A r \in Reqs :
    (pc[r] # "idle" /\ pc'[r] # "idle") => IsPrefix(messages[r], messages'[r])
\* C4: turn 0 is the original question throughout a request, and every step
\* of the request only appends turns to the conversation: a rewritten query
\* is a new turn, not a substitution.
C4_Turn0KeptAppendOnly == []Turn0IsQuestion /\ [][AppendOnly]_vars
\* a rewritten query has been appended behind the first attempt's turns
C4_Witness ==
  \E r \in Reqs :
    /\ Rewrites(messages[r]) >= 2
    /\ messages[r][4].role = "user"
    /\ messages[r][4].content # messages[r][1].content
    /\ messages[r][1].content = Text(QuestionOf(r))

\* the request's routing decision was respond_directly
DirectlyRouted(r) == Len(messages[r]) >= 2 /\ messages[r][2].tool_calls = <<>>
\* C5: a request whose routing decision is respond_directly makes no
\* retrieval call, goes from Route straight to the end of the graph, and its
\* response carries no sources, whatever include_sources says.
C5_DirectResponseNoSources ==
  \A r \in Reqs :
    DirectlyRouted(r) =>
      /\ pc[r] \in {"end", "done", "failed"}
      /\ Len(messages[r]) = 2 /\ steps[r] = 1
      /\ calls[r] = <<>> /\ retrieved_sources = <<>>
      /\ response[r].sources = NoSources
\* a direct answer returned to a caller who asked for sources
C5_Witness ==
  \E r \in Reqs :
    /\ pc[r] = "done" /\ DirectlyRouted(r)
    /\ request[r].include_sources
    /\ response[r].status = 200

\* C6: the context given to the generator is the text returned by the
\* retrieval attempt just graded (the last tool-result turn), never that of
\* an earlier attempt of the same request.
C6_GenerateUsesLatestRetrieval ==
  \A r \in Reqs :
    gen_context[r] # NoContext
      => gen_context[r] = ToolResult(LastRetrieved(messages[r]))
\* generation after a rewrite round, the first attempt's text being another
C6_Witness ==
  \E r \in Reqs :
    /\ pc[r] = "end" /\ gen_context[r] # NoContext
    /\ Rewrites(messages[r]) >= 1
    /\ messages[r][3].content # gen_context[r]
    /\ gen_context[r] # NO_INFO


\* a failed request answers with an error and nothing else
FailedIsErrorOnly ==
  \A r \in Reqs :
    pc[r] = "failed" =>
      /\ response[r].status = 500 /\ response[r].detail # ""
      /\ response[r].answer = EmptyContent
      /\ response[r].sources = NoSources
\* a tool call of the running retrieval step has raised
CallRaised(r) == \E i \in 1..Len(calls[r]) : calls[r][i].tpc = "raised"
\* after a failure no turn is added and no response other than the error
StopsAtFailure ==
  \A r \in Reqs :
    /\ CallRaised(r) => (messages'[r] = messages[r] /\ pc'[r] \in {"retrieve", "failed"})
    /\ pc[r] = "failed" => (pc'[r] \in {"failed", "idle"} /\ response'[r].status # 200)
\* C7: when a component call fails the request stops there: no further turn
\* is produced, and the caller receives one error, with no answer and no
\* sources, never the conversation built so far.
C7_FailureAbortsRequest == []FailedIsErrorOnly /\ [][StopsAtFailure]_vars
\* a request that failed with retrieved passages and a conversation behind it
C7_Witness ==
  \E r \in Reqs :
    /\ pc[r] = "failed" /\ response[r] = ErrorResponse
    /\ request[r].include_sources
    /\ Len(messages[r]) >= 3 /\ retrieved_sources # <<>>

\* C8 (as stated): 'yes' leads to Generate, 'no' to Rewrite, and any other
\* grader output fails the request: it leads neither to Generate nor to
\* Rewrite.
C8_GraderContract ==
  \A r \in Reqs :
    verdict[r] # NoVerdict =>
      /\ verdict[r] = "yes" => pc[r] = "generate"
      /\ verdict[r] = "no" => pc[r] = "rewrite"
      /\ verdict[r] \notin {"yes", "no"} => pc[r] \notin {"generate", "rewrite"}

\* C9: with requests served one after another, the sources list is empty
\* when a request reaches its first routing decision, whatever the earlier
\* requests left in it, and a response holds only sources the request's own
\* retrieval calls produced.
C9_SourcesResetPerRequest ==
  \A r \in Reqs :
    /\ (pc[r] = "route" /\ steps[r] = 0) => retrieved_sources = <<>>
    /\ pc[r] = "done" =>
         \A i \in 1..Len(SourcesOf(response[r])) :
           SourcesOf(response[r])[i] \in OwnEntries(messages[r])
\* a request about to be routed, entered while the list still held the
\* sources of an earlier request
C9_Witness ==
  \E r \in Reqs :
    /\ pc[r] = "route" /\ steps[r] = 0
    /\ found_at_entry[r] # <<>>
    /\ retrieved_sources = <<>>

\* C10 (as stated): for a request handled alone that ends in Generate, the
\* response's question is the request's; with include_sources its sources
\* are the passages of the retrieval the answer was generated from, one
\* entry each, in rank order, at most K; without it there are no sources.
C10_SourcesMatchAnswer ==
  \A r \in Reqs :
    (pc[r] = "done" /\ gen_context[r] # NoContext) =>
      /\ response[r].question = request[r].question
      /\ request[r].include_sources =>
           /\ SourcesOf(response[r]) = EntriesOf(LastRetrieved(messages[r]))
           /\ Len(SourcesOf(response[r])) <= K
      /\ ~request[r].include_sources => response[r].sources = NoSources

\* the rewrite step that has just run was the request's second or a later one
LaterRewriteRound(r) ==
  /\ prompt[r].node = "rewriter"
  /\ Rewrites(messages[r]) >= 2
\* C11: in every rewrite round, the second and later ones included, the text
\* given to the rewriter is the original question (the content of turn 0),
\* never the output of an earlier rewrite.
C11_RewriterGivenTurn0 ==
  \A r \in Reqs :
    prompt[r].node = "rewriter" =>
      /\ prompt[r].question = Text(request[r].question)
      /\ prompt[r].question = messages[r][1].content
      /\ \A i \in 2..Len(messages[r]) :
           (messages[r][i].role = "user"
              /\ messages[r][i].content # messages[r][1].content)
             => prompt[r].question # messages[r][i].content
\* a second rewrite round ran after a first one whose output differs from the
\* question
C11_Witness ==
  \E r \in Reqs :
    /\ LaterRewriteRound(r)
    /\ messages[r][4].role = "user"
    /\ messages[r][4].content = Text("w1")
    /\ prompt[r].question = Text(QuestionOf(r))

\* turn i is a model's text output (a rewrite, a generated or direct answer)
\* and is empty
EmptyOutputTurn(msgs, i) ==
  /\ msgs[i].role = "user" \/ (msgs[i].role = "assistant" /\ msgs[i].tool_calls = <<>>)
  /\ ~Truthy(msgs[i].content)
\* C12 (as stated): an empty text from the rewriter, the generator or the
\* directly answering router aborts the attempt and the request ends with an
\* error: an empty rewritten query is never appended and routed again, and
\* no response with an empty answer is returned.
C12_EmptyOutputAborts ==
  \A r \in Reqs :
    /\ \A i \in 2..Len(messages[r]) :
         messages[r][i].role = "user" => Truthy(messages[r][i].content)
    /\ (\E i \in 2..Len(messages[r]) : EmptyOutputTurn(messages[r], i))
         => pc[r] \in {"end", "failed"}
    /\ pc[r] = "done" => Truthy(response[r].answer)

\* both handlings of the request have ended
BothEnded == pc[First] \in {"done", "failed"} /\ pc[Second] \in {"done", "failed"}
\* C13 (as stated): determinism across requests: with a fixed corpus and
\* deterministic collaborators, handling the same request twice in sequence
\* gives the same retrieval results in the same rank order and the same
\* response (answer and sources); the second response does not depend on
\* what the first handling left behind.
C13_SameRequestSameResponse ==
  BothEnded =>
    /\ messages[Second] = messages[First]
    /\ response[Second] = response[First]

\* C14: the preview of a passage text t is t itself when t has at most 200
\* characters, otherwise the first 200 characters of t followed by '...'; it
\* never has more than 203 characters and always starts with a prefix of t.
C14_PreviewTruncation ==
  applied.fn = "content_preview" =>
    LET t == applied.arg
        p == applied.val
    IN /\ t.len <= 200 => p = [id |-> t.id, len |-> t.len, ellipsis |-> FALSE]
       /\ t.len > 200 => p = [id |-> t.id, len |-> 200, ellipsis |-> TRUE]
       /\ PreviewChars(p) <= 203
       /\ p.id = t.id /\ p.len <= t.len
\* a text of 201 characters was cut to 200 and given the ellipsis
C14_Witness ==
  /\ applied.fn = "content_preview"
  /\ applied.arg.len = 201
  /\ applied.val.ellipsis
  /\ PreviewChars(applied.val) = 203

\* the retrieve_from_books calls of the request that are running
InFlight(r) ==
  {c \in 1..Len(calls[r]) : calls[r][c].tpc \in {"invoke", "append"}}
\* the tool-result turns that follow the latest routing output asking for
\* retrieval
ResultsOfLatest(msgs) ==
  {i \in 1..Len(msgs) : msgs[i].role = "tool" /\ i > Max(ToolRequests(msgs))}
\* C15 (as stated): within one request at most one component call is in
\* flight at any time, and each routing decision that chooses retrieval
\* causes exactly one retrieval call before grading.
C15_OneCallAtATime ==
  \A r \in Reqs :
    /\ Cardinality(InFlight(r)) <= 1
    /\ pc[r] = "retrieve" => Len(calls[r]) = 1
    /\ pc[r] = "grade" => Cardinality(ResultsOfLatest(messages[r])) = 1

\* the retrieval step of the request has run its calls and none found a
\* passage
FoundNothing(r) ==
  /\ pc[r] = "retrieve"
  /\ calls[r] # <<>>
  /\ \A c \in 1..Len(calls[r]) :
       calls[r][c].tpc = "done" /\ DocsOf(calls[r][c]) = <<>>
\* such a step leaves the sources list empty
EmptyRetrievalLeavesNoSources ==
  \A r \in Reqs : FoundNothing(r) => retrieved_sources = <<>>
\* and its only continuation is to append the marker and go on to Grade
EmptyRetrievalGoesToGrade ==
  \A r \in Reqs :
    (FoundNothing(r) /\ pc'[r] # pc[r]) =>
      /\ pc'[r] = "grade"
      /\ Len(messages'[r]) = Len(messages[r]) + Len(calls[r])
      /\ IsPrefix(messages[r], messages'[r])
      /\ \A i \in (Len(messages[r]) + 1)..Len(messages'[r]) :
           /\ messages'[r][i].role = "tool"
           /\ messages'[r][i].content =
                Text("No relevant information found in the books.")
      /\ retrieved_sources' = <<>>
      /\ response'[r] = response[r]
\* C16: a retrieval that finds no passages is not an error: the fixed marker
\* 'No relevant information found in the books.' is appended as the
\* tool-result turn, the sources list is left empty, and the request goes on
\* to Grade.
C16_EmptyRetrievalGraded ==
  []EmptyRetrievalLeavesNoSources /\ [][EmptyRetrievalGoesToGrade]_vars
\* an empty retrieval reached Grade after an earlier retrieval of the same
\* request had filled the list
C16_Witness ==
  \E r \in Reqs :
    /\ pc[r] = "grade"
    /\ Len(messages[r]) >= 6
    /\ messages[r][3].content.parts # <<>>
    /\ Last(messages[r]) = ToolMessage(NO_INFO)
    /\ retrieved_sources = <<>>

\* the step of request r is the start of the run or follows an edge of the
\* graph, under the edge's condition
GraphEdge(r) ==
  \/ pc[r] = "idle" /\ pc'[r] = "route"
  \/ /\ pc[r] = "route" /\ pc'[r] = "retrieve"
     /\ Last(messages'[r]).role = "assistant"
     /\ Last(messages'[r]).tool_calls # <<>>
  \/ /\ pc[r] = "route" /\ pc'[r] = "end"
     /\ Last(messages'[r]).role = "assistant"
     /\ Last(messages'[r]).tool_calls = <<>>
  \/ pc[r] = "retrieve" /\ pc'[r] = "grade"
  \/ pc[r] = "grade" /\ pc'[r] = "generate" /\ verdict'[r] = "yes"
  \/ pc[r] = "grade" /\ pc'[r] = "rewrite" /\ verdict'[r] # "yes"
  \/ pc[r] = "rewrite" /\ pc'[r] = "route"
  \/ pc[r] = "generate" /\ pc'[r] = "end"
\* the step leaves the graph: the run is aborted by an exception, or the
\* handler answers after the graph's end and returns
LeavesGraph(r) ==
  \/ pc[r] \in {"route", "retrieve", "grade", "rewrite", "generate"}
       /\ pc'[r] = "failed"
  \/ pc[r] = "end" /\ pc'[r] \in {"done", "failed"}
  \/ pc[r] \in {"done", "failed"} /\ pc'[r] = "idle"
FollowsGraph ==
  \A r \in Reqs :
    pc'[r] # pc[r] =>
      /\ GraphEdge(r) \/ LeavesGraph(r)
      /\ pc'[r] = "end" => pc[r] \in {"route", "generate"}
      /\ pc'[r] = "retrieve" => pc[r] = "route"
\* C17: every step of a request follows one of exactly these transitions:
\* start -> Route; Route -> Retrieve when the routing output requests the
\* tool, Route -> Done otherwise; Retrieve -> Grade; Grade -> Generate on
\* verdict relevant, Grade -> Rewrite on verdict irrelevant; Rewrite -> Route;
\* Generate -> Done.  Done is entered only from Route or Generate, Retrieve
\* only from Route.
C17_GraphTransitions == [][FollowsGraph]_vars
\* a run that took the loop once and then generated: every edge but
\* Route -> Done was taken
C17_Witness ==
  \E r \in Reqs :
    /\ pc[r] = "end"
    /\ Rewrites(messages[r]) = 1
    /\ prompt[r].node = "generator"
    /\ steps[r] = 6

\* the turns written by the generator: assistant turns that follow a
\* tool-result turn
GeneratedTurns(msgs) ==
  {i \in 2..Len(msgs) : msgs[i].role = "assistant" /\ msgs[i - 1].role = "tool"}
\* Generate is entered under a relevant verdict only; it has run at most
\* once, its turn is the last one, and the answer returned is that turn's text
GenerateOnceAnswerVerbatim ==
  \A r \in Reqs :
    /\ pc[r] = "generate" => verdict[r] = "yes"
    /\ Cardinality(GeneratedTurns(messages[r])) <= 1
    /\ GeneratedTurns(messages[r]) # {} =>
         /\ GeneratedTurns(messages[r]) = {Len(messages[r])}
         /\ pc[r] \in {"end", "done", "failed"}
         /\ prompt[r].node = "generator"
         /\ Last(messages[r]).content \in GeneratorOutputs
         /\ pc[r] = "done" => response[r].answer = Last(messages[r]).content
\* Generate is entered from Grade, and after it the request makes no
\* further call: it goes to the end of the graph and to the response
GenerateThenDone ==
  \A r \in Reqs :
    /\ (pc'[r] = "generate" /\ pc[r] # "generate") =>
         pc[r] = "grade" /\ verdict'[r] = "yes"
    /\ (pc[r] = "generate" /\ pc'[r] # "generate") =>
         pc'[r] \in {"end", "failed"}
    /\ (prompt[r].node = "generator" /\ pc[r] = "end") =>
         /\ pc'[r] \in {"end", "done", "failed"}
         /\ messages'[r] = messages[r]
         /\ calls'[r] = <<>>
         /\ prompt'[r] = prompt[r]
\* C18: Generate runs at most once per request and only immediately after a
\* Grade step with verdict relevant; after it the request goes to Done with
\* no further routing, retrieval, grading or rewriting call, and the answer
\* returned is the generator's output verbatim.
C18_GenerateOnceThenDone ==
  []GenerateOnceAnswerVerbatim /\ [][GenerateThenDone]_vars
\* a generated answer was returned after one rewrite round
C18_Witness ==
  \E r \in Reqs :
    /\ pc[r] = "done"
    /\ prompt[r].node = "generator"
    /\ Rewrites(messages[r]) >= 1
    /\ response[r].answer = Text("g1")

\* a Rewrite step that returns: one user turn is appended behind the turns
\* found, and Route comes next
RewriteAppendsOneTurn ==
  \A r \in Reqs :
    (pc[r] = "rewrite" /\ pc'[r] \notin {"rewrite", "failed"}) =>
      /\ pc'[r] = "route"
      /\ Len(messages'[r]) = Len(messages[r]) + 1
      /\ IsPrefix(messages[r], messages'[r])
      /\ Last(messages'[r]).role = "user"
      /\ Last(messages'[r]).tool_calls = <<>>
      /\ Last(messages'[r]).content \in RewriterOutputs
      /\ prompt'[r].node = "rewriter"
\* the routing call that follows a Rewrite step is given the whole
\* conversation, the rewritten query last
RouteAfterRewrite ==
  \A r \in Reqs :
    (prompt[r].node = "rewriter" /\ prompt'[r] # prompt[r] /\ pc'[r] # "failed") =>
      /\ pc[r] = "route"
      /\ prompt'[r].node = "router"
      /\ prompt'[r].msgs = messages[r]
      /\ Last(prompt'[r].msgs).role = "user"
      /\ Len(prompt'[r].msgs) >= 4
\* C19: each Rewrite step appends exactly one turn, with role user and the
\* rewriter's output as content, changes no other turn and is always followed
\* by Route; the next routing call receives the whole conversation, which ends
\* with the rewritten query.
C19_RewriteAppendsThenRoutes ==
  [][RewriteAppendsOneTurn /\ RouteAfterRewrite]_vars
\* a routing call was made on a conversation ending with the rewritten query
C19_Witness ==
  \E r \in Reqs :
    /\ prompt[r].node = "router"
    /\ Len(prompt[r].msgs) = 4
    /\ Last(prompt[r].msgs) = HumanMessage(Text("w1"))
    /\ prompt[r].msgs[1] = HumanMessage(Text(QuestionOf(r)))
    /\ IsPrefix(prompt[r].msgs, messages[r])

\* the passages returned by the retrieval calls for a sequence of queries,
\* call after call, each in rank order
RECURSIVE AllPassages(_)
AllPassages(queries) ==
  IF queries = <<>> THEN <<>>
  ELSE LET docs == RetrieverInvoke(Head(queries))
       IN [i \in 1..Len(docs) |-> ResultBlock(docs[i])]
            \o AllPassages(Tail(queries))
\* the full text of the retrieval step that precedes the grading
LatestRetrievalText(msgs) ==
  LET ps == AllPassages(msgs[Max(ToolRequests(msgs))].tool_calls)
  IN IF ps = <<>> THEN NO_INFO ELSE Passages(ps)
\* C20 (as stated): in every Grade step the question given to the grader is
\* the content of turn 0 and the context is the full concatenated text of all
\* passages returned by the retrieval step just before it, also when the
\* routing output asked for more than one retrieval; never an earlier
\* attempt's turn, nor only a part of the latest retrieval.
C20_GraderGivenFullRetrieval ==
  \A r \in Reqs :
    prompt[r].node = "grader" =>
      /\ prompt[r].question = Text(request[r].question)
      /\ prompt[r].context = LatestRetrievalText(messages[r])

\* C21 (as stated): every entry of the sources list has a page number that
\* is a non-negative integer, whatever the stored page metadata is (missing,
\* a string, a negative number, a non-integral number); a non-numeric or
\* missing page yields 0.
C21_PageNonNegative ==
  applied.fn = "page" =>
    /\ applied.val \in Nat
    /\ applied.arg.kind \in {"str", "missing"} => applied.val = 0

\* the request was answered by the router after retrieval attempts, none of
\* which was graded relevant
DirectAfterIrrelevant(r) ==
  /\ pc[r] = "done"
  /\ RetrievalAttempts(messages[r]) >= 1
  /\ GeneratedTurns(messages[r]) = {}
  /\ Last(messages[r]).role = "assistant"
  /\ Last(messages[r]).tool_calls = <<>>
\* C22 (as stated): sources are returned only with an answer they ground: a
\* direct answer of the router given after retrieval attempts that were all
\* graded irrelevant has no sources, even with include_sources true.
C22_NoSourcesForIrrelevant ==
  \A r \in Reqs :
    DirectAfterIrrelevant(r) => response[r].sources = NoSources

\* the request has made a retrieval attempt and no retrieval call of it is
\* running
RetrievalSettled(r) ==
  /\ pc[r] \in {"grade", "rewrite", "route", "generate", "end", "done"}
  /\ RetrievalAttempts(messages[r]) >= 1
\* the request's retrieval call has failed
RetrievalFailed(r) ==
  /\ pc[r] = "retrieve"
  /\ \E c \in 1..Len(calls[r]) : calls[r][c].tpc = "raised"
  /\ Joined(calls[r])
\* C23 (as stated): each retrieval call replaces the sources list instead of
\* extending it: after any number of retrieval attempts in one request the
\* list holds only the passages of the most recent retrieval call (at most
\* 5), and it is empty if that call found nothing or failed.
C23_SourcesReplacedPerCall ==
  \A r \in Reqs :
    /\ RetrievalSettled(r) =>
         /\ retrieved_sources = EntriesOf(LastRetrieved(messages[r]))
         /\ Len(retrieved_sources) <= 5
    /\ RetrievalFailed(r) => retrieved_sources = <<>>

\* the router has issued at most one retrieval in each routing step
OneRetrievalPerStep(msgs) ==
  \A i \in 1..Len(msgs) : Len(msgs[i].tool_calls) <= 1
\* turns 2..1+3n are n repetitions of (assistant tool request, tool result,
\* user rewritten query)
RoundsShape(msgs, n) ==
  /\ Len(msgs) >= 1 + 3 * n
  /\ msgs[1].role = "user"
  /\ \A j \in 1..n :
       /\ msgs[3 * j - 1].role = "assistant" /\ msgs[3 * j - 1].tool_calls # <<>>
       /\ msgs[3 * j].role = "tool"
       /\ msgs[3 * j + 1].role = "user" /\ msgs[3 * j + 1].tool_calls = <<>>
\* C24: conversation shape: when the router issues one retrieval per routing
\* step, after n complete irrelevant rounds the conversation has exactly
\* 1 + 3n turns, the original question followed by n repetitions of
\* (assistant tool-request turn, tool-result turn, user rewritten-query turn);
\* at every Grade and Generate step the last turn is a tool-result turn, and
\* at Done the last turn is an assistant turn without a tool request.
C24_ConversationShape ==
  \A r \in Reqs :
    (pc[r] # "idle" /\ OneRetrievalPerStep(messages[r])) =>
      /\ RoundsShape(messages[r], Rewrites(messages[r]))
      /\ messages[r][1] = HumanMessage(Text(request[r].question))
      /\ pc[r] = "route" => Len(messages[r]) = 1 + 3 * Rewrites(messages[r])
      /\ pc[r] \in {"grade", "generate"} => Last(messages[r]).role = "tool"
      /\ pc[r] \in {"end", "done"} =>
           Last(messages[r]).role = "assistant"
             /\ Last(messages[r]).tool_calls = <<>>
\* two complete irrelevant rounds: seven turns, Route is next
C24_Witness ==
  \E r \in Reqs :
    /\ pc[r] = "route"
    /\ OneRetrievalPerStep(messages[r])
    /\ Rewrites(messages[r]) = 2
    /\ Len(messages[r]) = 7

\* C25 (as stated): the CLI pipeline and the API pipeline are equivalent: for
\* the same question and the same collaborator outputs rag.py's graph goes
\* through the same states as api.py's, single_query returns the answer text
\* ask_question returns whenever that text is not empty, whatever it
\* contains, and it returns 'No response generated.' only when the final text
\* is empty.
C25_CliEquivalentToApi ==
  (BothEnded /\ pc[Second] = "done") =>
    /\ messages[Second] = messages[First]
    /\ pc[First] = "done" => response[Second].answer = response[First].answer
    /\ response[Second].answer = NO_RESPONSE =>
         ~Truthy(FinalResponse(messages[Second]))

\* the router's latest output is a direct answer
RouterAnswered(r) ==
  /\ pc[r] \notin {"idle", "done", "failed"}
  /\ Len(messages[r]) >= 2
  /\ NodeOf(messages[r], Len(messages[r])) = "generate_query_or_respond"
  /\ Last(messages[r]).tool_calls = <<>>
\* the grader's latest output is 'yes'
GraderSaidYes(r) == verdict[r] = "yes"
\* the request has ended: a response with a non-empty answer, or an error
Outcome(r) ==
  \/ pc[r] = "done" /\ response[r].status = 200 /\ Truthy(response[r].answer)
  \/ pc[r] = "failed" /\ response[r].status = 500
HealthReported ==
  applied.fn = "health_check" =>
    /\ ~applied.arg.raised =>
         /\ applied.val.status = "healthy"
         /\ applied.val.qdrant_connected /\ applied.val.collection_exists
         /\ applied.val.documents_count = applied.arg.points_count
    /\ applied.arg.raised =>
         /\ applied.val.status = "unhealthy"
         /\ ~applied.val.qdrant_connected /\ ~applied.val.collection_exists
         /\ applied.val.documents_count = 0
\* a health check leaves the service's state as it found it
HealthReadsOnly ==
  applied' # applied =>
    /\ applied'.fn = "health_check"
    /\ retrieved_sources' = retrieved_sources
    /\ UNCHANGED <<ServiceVars, ingest>>
RECURSIVE Stored(_)
Stored(bs) == IF bs = <<>> THEN <<>> ELSE Head(bs).batch \o Stored(Tail(bs))
\* C28: ingestion batching: for any number n of chunks the batch loop passes
\* every chunk to the vector store exactly once, in the original order, in
\* ceil(n/100) batches, each of 1 to 100 chunks, and the last progress count
\* reported is n.
C28_BatchesCoverChunks ==
  applied.fn = "batches" =>
    LET chunks == applied.arg
        bs == applied.val
        n == Len(chunks)
    IN /\ Stored(bs) = chunks
       /\ Len(bs) = (n + 99) \div 100
       /\ \A b \in 1..Len(bs) : Len(bs[b].batch) \in 1..100
       /\ bs # <<>> => bs[Len(bs)].processed = n
\* 250 chunks went out as batches of 100, 100 and 50
C28_Witness ==
  /\ applied.fn = "batches"
  /\ Len(applied.arg) = 250
  /\ Len(applied.val) = 3
  /\ Len(applied.val[3].batch) = 50
  /\ applied.val[2].processed = 200

\* the collection is as main found it
Untouched == ingest.collection = ingest.before
LoadedFrom(docs, i) == SelectSeq(docs, LAMBDA d : d.source = i)
\* C30: load_pdfs tolerates a failing file: a PDF whose load raises
\* contributes no documents and does not stop the loop, every other PDF's
\* pages are still returned, every returned document carries source_file
\* equal to the name of the PDF it came from, and an empty directory yields
\* an empty list.
C30_LoadPdfsToleratesFailure ==
  applied.fn = "load_pdfs" =>
    LET pdf_files == applied.arg
        docs == applied.val
    IN /\ \A i \in 1..Len(pdf_files) :
            IF pdf_files[i].raises
            THEN LoadedFrom(docs, i) = <<>>
            ELSE /\ Len(LoadedFrom(docs, i)) = pdf_files[i].pages
                 /\ \A j \in 1..pdf_files[i].pages : LoadedFrom(docs, i)[j].page = j - 1
       /\ \A n \in 1..Len(docs) :
            /\ docs[n].source \in 1..Len(pdf_files)
            /\ docs[n].source_file = PdfName(docs[n].source)
       /\ pdf_files = <<>> => docs = <<>>
\* a failing file between two files that load
C30_Witness ==
  /\ applied.fn = "load_pdfs"
  /\ Len(applied.arg) = 3
  /\ ~applied.arg[1].raises /\ applied.arg[1].pages > 0
  /\ applied.arg[2].raises
  /\ ~applied.arg[3].raises /\ applied.arg[3].pages > 0
  /\ Len(applied.val) = applied.arg[1].pages + applied.arg[3].pages

====
